---- MODULE Spec2Model ----
(***************************************************************************)
(* Model of the database-chat request pipeline of demo-hr-chatapp:         *)
(*   src/src/app/api/database-chat/route.ts   POST (lines 131-301)         *)
(*   src/src/nl-processor.ts                  translator and narrator      *)
(*   src/unnamed/part_004                     executeQuery, executeSubquery*)
(* One request is followed from its arrival to its response.  The language *)
(* model and the relational backend are the environment: their replies are *)
(* chosen nondeterministically.                                            *)
(***************************************************************************)
EXTENDS Integers, Sequences, FiniteSets, TLC

\* Employee ids of the modelled roster are 1..MaxEmployeeId.
MaxEmployeeId == 2

EmployeeIds == 1..MaxEmployeeId

(***************************************************************************)
(* Text.  A message is a sequence of tokens; a token is a run of           *)
(* characters of one class.  JavaScript's \b and \w (no u flag) know only  *)
(* [A-Za-z0-9_] as word characters, so every Thai token is a run of        *)
(* non-word characters.  The Thai tokens are cut so that none contains a   *)
(* literal of the patterns as a proper substring.                          *)
(***************************************************************************)
DigitTokens == {"5"}

AsciiWordTokens == {"ID"} \cup DigitTokens

IsWordToken(t) == t \in AsciiWordTokens

\* \b at position i of m: between token i-1 and token i (i in 1..Len(m)+1).
WordAt(m, i) == i >= 1 /\ i <= Len(m) /\ IsWordToken(m[i])

Boundary(m, i) == WordAt(m, i - 1) # WordAt(m, i)

\* The literal w (a token sequence) occurs in m starting at position i.
Lit(m, i, w) ==
    /\ i >= 1
    /\ i + Len(w) - 1 <= Len(m)
    /\ \A k \in 1..Len(w) : m[i + k - 1] = w[k]

\* /w/ : the literal anywhere.
HasLit(m, w) == \E i \in 1..Len(m) : Lit(m, i, w)

\* /\bw\b/ starting at i.
BLitAt(m, i, w) == Boundary(m, i) /\ Lit(m, i, w) /\ Boundary(m, i + Len(w))

\* /\bw\b/ anywhere.
HasBLit(m, w) == \E i \in 1..Len(m) : BLitAt(m, i, w)

\* /\b\d+\b/ starting at i: a maximal-or-not run of digits j..k-1 between boundaries.
BDigitsAt(m, i) ==
    /\ Boundary(m, i)
    /\ \E k \in (i + 1)..(Len(m) + 1) :
          /\ \A j \in i..(k - 1) : m[j] \in DigitTokens
          /\ Boundary(m, k)

\* PERSONAL_QUESTION_PATTERNS[0..3]
PersonalPattern1(m) ==
    \/ HasLit(m, <<"TH_chan">>)
    \/ HasBLit(m, <<"TH_khong", "TH_chan">>)
    \/ HasBLit(m, <<"TH_phom">>)
    \/ HasBLit(m, <<"TH_di", "TH_chan">>)
    \/ HasBLit(m, <<"TH_tuaeng">>)

PersonalPattern2(m) ==
    \/ HasBLit(m, <<"TH_rao">>)
    \/ HasBLit(m, <<"TH_phuak", "TH_rao">>)
    \/ HasBLit(m, <<"TH_khong", "TH_rao">>)

PersonalPattern3(m) ==
    \/ HasBLit(m, <<"TH_kankhaongan", "TH_khong", "TH_chan">>)
    \/ HasBLit(m, <<"TH_wanla", "TH_khong", "TH_chan">>)
    \/ HasBLit(m, <<"TH_ngoenduean", "TH_khong", "TH_chan">>)

PersonalPattern4(m) ==
    \/ HasBLit(m, <<"TH_mathamngan">>)
    \/ HasBLit(m, <<"TH_khatngan">>)
    \/ HasBLit(m, <<"TH_langan">>)

\* PERSONAL_QUESTION_PATTERNS.some(pattern => pattern.test(message))
MatchesPersonal(m) ==
    PersonalPattern1(m) \/ PersonalPattern2(m) \/ PersonalPattern3(m) \/ PersonalPattern4(m)

\* /\bTH_ngoenduean\b.*?\b(\d+|\bTH_khong.*?)\b/
OtherPattern1(m) ==
    \E i \in 1..Len(m) :
        /\ BLitAt(m, i, <<"TH_ngoenduean">>)
        /\ \E j \in (i + 1)..(Len(m) + 1) :
              \/ BDigitsAt(m, j)
              \/ /\ Boundary(m, j)
                 /\ Lit(m, j, <<"TH_khong">>)
                 /\ \E k \in (j + 1)..(Len(m) + 1) : Boundary(m, k)

\* /\bTH_phanakngan\b.*?\b\d+\b/
OtherPattern2(m) ==
    \E i \in 1..Len(m) :
        /\ BLitAt(m, i, <<"TH_phanakngan">>)
        /\ \E j \in (i + 1)..(Len(m) + 1) : BDigitsAt(m, j)

OtherNames == {<<"TH_khong">>, <<"TH_somchai">>, <<"TH_somying">>, <<"TH_nai">>, <<"TH_nang">>, <<"TH_nang", "TH_sao">>}

\* /\bTH_khomun\b.*?(\bTH_khong\b|\bTH_somchai\b|\bTH_somying\b|\bTH_nai\b|\bTH_nang\b|\bTH_nangTH_sao\b)/
OtherPattern3(m) ==
    \E i \in 1..Len(m) :
        /\ BLitAt(m, i, <<"TH_khomun">>)
        /\ \E j \in (i + 1)..(Len(m) + 1) : \E w \in OtherNames : BLitAt(m, j, w)

OtherPattern4(m) == HasBLit(m, <<"TH_khong", "TH_phuean">>)

OtherPattern5(m) == HasBLit(m, <<"TH_khong", "TH_phanaek">>)

\* OTHER_EMPLOYEE_PATTERNS.some(pattern => pattern.test(message))
MatchesOther(m) ==
    OtherPattern1(m) \/ OtherPattern2(m) \/ OtherPattern3(m) \/ OtherPattern4(m) \/ OtherPattern5(m)

\* The questions a client sends.  The empty sequence is the empty string.
Messages ==
    { <<>>,
      <<"TH_ngoenduean", "TH_khong", "TH_chan">>,
      <<"TH_mueawan", "TH_khrai", "TH_khatngan">>,
      <<"TH_khomun", "TH_phanakngan", " ", "5">>,
      <<"TH_ngoenduean", "TH_khong", "TH_somchai">>,
      <<"ID", "TH_phanakngan", "5">>,
      <<"TH_chan", "ID", "TH_phanakngan", "5">> }

(***************************************************************************)
(* Values.  A JSON value of a condition or a row field is a tagged record  *)
(* of one shape: k is the JavaScript type ("num", "str", "arr", "null"),   *)
(* n the number, s the string, a the elements of an array of numbers.      *)
(***************************************************************************)
Num(n) == [k |-> "num", n |-> n, s |-> "", a |-> {}]

Str(s) == [k |-> "str", n |-> 0, s |-> s, a |-> {}]

Arr(a) == [k |-> "arr", n |-> 0, s |-> "", a |-> a]

Null == [k |-> "null", n |-> 0, s |-> "", a |-> {}]

(***************************************************************************)
(* Strings the language model writes as condition values.  A string is an  *)
(* atom; what the code's string tests answer on it is tabulated below.     *)
(*   SQ_first_malee  (SELECT emp_id FROM employees WHERE first_name LIKE   *)
(*                    '%Malee%')                                           *)
(*   SQ_other_table  (SELECT emp_id FROM payroll WHERE net_pay > 0)        *)
(*   SQ_phrase       (SELECT emp_id FROM staff WHERE note = 'Could not     *)
(*                    understand')                                         *)
(*   sq_lower_name   (select first_name from employees where emp_id = 1)   *)
(*   absent, present, %Malee%   plain literals                             *)
(***************************************************************************)
SubqueryStrings == {"SQ_first_malee", "SQ_other_table", "SQ_phrase"}

\* The strings written as a parenthesized select, in either letter case.
ParenthesizedSelects == SubqueryStrings \cup {"sq_lower_name"}

\* value.startsWith('(SELECT') && value.endsWith(')')
IsSubqueryShaped(s) == s \in SubqueryStrings

\* subquery.toLowerCase().startsWith("select emp_id from employees where")
HasSupportedPrefix(s) == s \in {"SQ_first_malee"}

\* subquery.match(/first_name\s+LIKE\s+'%(.+?)%'/i)[1], "" when there is no match
FirstNameMatch(s) == IF s = "SQ_first_malee" THEN "Malee" ELSE ""

\* subquery.match(/last_name\s+LIKE\s+'%(.+?)%'/i)[1], "" when there is no match
LastNameMatch(s) == ""

\* subquery.match(/emp_id\s*=\s*(\d+)/i)[1], 0 when there is no match
EmpIdDirectMatch(s) == 0

\* text.includes('Could not understand')
IncludesCouldNotUnderstand(s) == s \in {"SQ_phrase"}

\* parseInt(s, 10) of the strings written as an employee id; -1 stands for NaN.
ParseInt(s) == CASE s = "1" -> 1 [] s = "2" -> 2 [] OTHER -> -1

\* The text a LIKE pattern looks for: the pattern without its % wildcards.
LikeCore(s) == IF s = "%Malee%" THEN "Malee" ELSE s

(***************************************************************************)
(* Errors.  isError: the thrown value is an instance of Error;             *)
(* phrase: its message includes 'Could not understand'.                    *)
(***************************************************************************)
NoError == [thrown |-> FALSE, isError |-> FALSE, phrase |-> FALSE, stage |-> "none"]

Thrown(isError, phrase, stage) ==
    [thrown |-> TRUE, isError |-> isError, phrase |-> phrase, stage |-> stage]

(***************************************************************************)
(* Dates and the date normalizer parseSQLiteDate (src/unnamed/part_004).   *)
(* A date text is the record of what the normalizer reads in it:           *)
(*   form "ymd"       four digits, '-', two digits, '-', two digits: y-m-d *)
(*                    (m and d are any two digits, a real date or not)     *)
(*   form "current"   CURRENT_DATE                                         *)
(*   form "interval"  CURRENT_DATE + INTERVAL 'n DAY'  (n < 0: written     *)
(*                    with '-')                                            *)
(*   form "now"       date('now')                                          *)
(*   form "modifier"  date('now', 'n unit'), unit "day" or "month"         *)
(*   form "start"     date('now', 'start of month')                        *)
(*   form "other"     any other text                                       *)
(* wrapped: the text is written as "(SELECT " text ")".                    *)
(* The clock is [today, west]: the local calendar date of new Date(), and  *)
(* whether the local time zone is behind UTC.                              *)
(***************************************************************************)
DateText(form, y, m, d, n, unit, wrapped) ==
    [form |-> form, y |-> y, m |-> m, d |-> d, n |-> n, unit |-> unit, wrapped |-> wrapped]

\* The text "y-m-d".
Ymd(y, m, d) == DateText("ymd", y, m, d, 0, "", FALSE)

IsLeap(y) == (y % 4 = 0 /\ y % 100 # 0) \/ y % 400 = 0

DaysInMonth(y, m) ==
    CASE m = 2 -> IF IsLeap(y) THEN 29 ELSE 28
      [] m \in {4, 6, 9, 11} -> 30
      [] OTHER -> 31

\* The text denotes a real calendar date.
IsRealDate(t) ==
    t.form = "ymd" /\ t.m \in 1..12 /\ t.d >= 1 /\ t.d <= DaysInMonth(t.y, t.m)

\* The day number of the first of month m (1..12) of year y, counted from
\* 1970-01-01.
FirstOfMonth(y, m) ==
    LET yy == IF m <= 2 THEN y - 1 ELSE y
        era == yy \div 400
        yoe == yy - era * 400
        doy == (153 * (IF m > 2 THEN m - 3 ELSE m + 9) + 2) \div 5
    IN era * 146097 + yoe * 365 + yoe \div 4 - yoe \div 100 + doy - 719468

\* new Date(y, m - 1, d): months and days out of range carry over.
DayNumber(y, m, d) ==
    FirstOfMonth((y * 12 + m - 1) \div 12, ((y * 12 + m - 1) % 12) + 1) + d - 1

\* The calendar date of a day number, as the text getFullYear, getMonth + 1
\* and getDate are formatted to.
DateOf(z) ==
    LET era == (z + 719468) \div 146097
        doe == (z + 719468) - era * 146097
        yoe == (doe - doe \div 1460 + doe \div 36524 - doe \div 146096) \div 365
        doy == doe - (365 * yoe + yoe \div 4 - yoe \div 100)
        mp == (5 * doy + 2) \div 153
        m == IF mp < 10 THEN mp + 3 ELSE mp - 9
    IN Ymd(yoe + era * 400 + (IF m <= 2 THEN 1 ELSE 0), m, doy - (153 * mp + 2) \div 5 + 1)

\* The form the normalizer sees after dateInputStr.replace(/^\(SELECT\s+|\s*\)$/gi, ''):
\* the replacement also takes the closing parenthesis of an unwrapped
\* date('now' ...) text, which no later test then recognizes.
CleanedForm(t) ==
    IF t.wrapped \/ t.form \in {"ymd", "current", "interval"} THEN t.form ELSE "other"

\* sixMonthsFromNow: new Date() after setMonth(currentMonth + 6), where
\* currentMonth is getMonth() + 1.
SixMonthsFromNow(clock) == DayNumber(clock.today.y, clock.today.m + 7, clock.today.d)

\* Lines 37-50: the year differs from the current year and the month and
\* day, put into the current year, are not after sixMonthsFromNow.
YearCorrected(t, clock) ==
    /\ t.y # clock.today.y
    /\ DayNumber(clock.today.y, t.m, t.d) <= SixMonthsFromNow(clock)

\* new Date("y-m-d") is a date: the runtime's parser takes months 01..12
\* and days 01..31 and carries a day past the month's end over.
IsoParses(t) == t.m \in 1..12 /\ t.d \in 1..31

\* Lines 54-59: the text is read as midnight UTC and formatted in local time.
IsoLocalDate(t, clock) ==
    DateOf(DayNumber(t.y, t.m, t.d) - (IF clock.west THEN 1 ELSE 0))

\* Lines 63-110: the forms relative to the current date; today for a text
\* that is none of them.
RelativeDate(t, clock) ==
    CASE CleanedForm(t) = "interval" ->
            DateOf(DayNumber(clock.today.y, clock.today.m, clock.today.d) + t.n)
      [] CleanedForm(t) = "modifier" /\ t.unit = "month" ->
            DateOf(DayNumber(clock.today.y, clock.today.m + t.n, clock.today.d))
      [] CleanedForm(t) = "modifier" ->
            DateOf(DayNumber(clock.today.y, clock.today.m, clock.today.d) + t.n)
      [] OTHER -> clock.today

\* parseSQLiteDate(dateInputStr)
ParseSQLiteDate(t, clock) ==
    IF CleanedForm(t) = "ymd" /\ YearCorrected(t, clock)
    THEN Ymd(clock.today.y, t.m, t.d)
    ELSE IF CleanedForm(t) = "ymd" /\ IsoParses(t)
    THEN IsoLocalDate(t, clock)
    ELSE RelativeDate(t, clock)

\* A date as the backend holds and compares it: its day number.  A text
\* y-m-d that is no calendar date has kind "baddate"; the backend refuses it.
DateVal(t) ==
    IF IsRealDate(t)
    THEN [k |-> "date", n |-> DayNumber(t.y, t.m, t.d), s |-> "", a |-> {}]
    ELSE [k |-> "baddate", n |-> 0, s |-> "", a |-> {}]

\* value.split(/\s+AND\s+/i).map(v => v.trim()) of the strings written as
\* BETWEEN values:
\*   B_nov2    2026-11-02 AND 2026-11-02
\*   B_nov     2026-11-01 AND 2026-11-30
\*   B_single  2026-11-01
\* Any other string has no AND in it and is one part.
BetweenParts(s) ==
    CASE s = "B_nov2" -> <<Ymd(2026, 11, 2), Ymd(2026, 11, 2)>>
      [] s = "B_nov" -> <<Ymd(2026, 11, 1), Ymd(2026, 11, 30)>>
      [] s = "B_single" -> <<Ymd(2026, 11, 1)>>
      [] OTHER -> <<DateText("other", 0, 0, 0, 0, "", FALSE)>>

(***************************************************************************)
(* The relational backend.  A row is [tbl, owners, data]: data maps the    *)
(* row's column names to values; owners is the set of employees whose      *)
(* stored rows the row was made from (it is not a column: it records       *)
(* whose data a projected or aggregated row discloses).                    *)
(***************************************************************************)
KnownEntities == {"employees", "attendance", "leave_requests", "payroll", "benefits"}

BackendTables == KnownEntities \cup {"tokens"}

FirstName(e) == IF e = 1 THEN "Malee" ELSE "Somchai"

AttendanceStatus(e) == IF e = 1 THEN "present" ELSE "absent"

StoredData(tbl, e) ==
    CASE tbl = "employees" ->
            [emp_id |-> Num(e), first_name |-> Str(FirstName(e)),
             last_name |-> Str("Khayan"), salary |-> Num(e * 10)]
      [] tbl = "attendance" ->
            [emp_id |-> Num(e), status |-> Str(AttendanceStatus(e)), total_hours |-> Num(8),
             date |-> DateVal(Ymd(2026, 11, e))]
      [] tbl = "leave_requests" ->
            [emp_id |-> Num(e), days |-> Num(e)]
      [] tbl = "payroll" ->
            [emp_id |-> Num(e), net_pay |-> Num(e * 10)]
      [] tbl = "benefits" ->
            [emp_id |-> Num(e), annual_leave_days |-> Num(6)]
      [] OTHER ->
            [token_id |-> Str("tok"), questions |-> Num(e)]

\* The stored rows of a table, in the backend's order.
TableRows(tbl) ==
    [e \in 1..MaxEmployeeId |->
        [tbl |-> tbl,
         owners |-> IF tbl \in KnownEntities THEN {e} ELSE {},
         data |-> StoredData(tbl, e)]]

TableColumns(tbl) == DOMAIN StoredData(tbl, 1)

(***************************************************************************)
(* Intermediate queries (DatabaseQuery).  A column string is the record    *)
(* [fn, arg, alias] of its parts: "SUM(days) AS total_days" is             *)
(* [fn |-> "SUM", arg |-> "days", alias |-> "total_days"], a plain         *)
(* column has fn = "" and alias = "".  An absent conditions object and an  *)
(* empty one are the same mapping (every reader treats them alike);        *)
(* limit = 0 and conditionLogic = "" stand for an absent field.            *)
(***************************************************************************)
Col(arg) == [fn |-> "", arg |-> arg, alias |-> ""]

Agg(fn, arg, alias) == [fn |-> fn, arg |-> arg, alias |-> alias]

Cond(operator, value) == [operator |-> operator, value |-> value]

NoConditions == [c \in {} |-> Cond("=", Null)]

Query(type, table, columns, conditions, conditionLogic, orderBy, limit) ==
    [type |-> type, table |-> table, columns |-> columns, conditions |-> conditions,
     conditionLogic |-> conditionLogic, groupBy |-> <<>>, orderBy |-> orderBy,
     limit |-> limit]

\* A backend filter, as the query builder receives it.
Filter(col, op, val) == [col |-> col, op |-> op, val |-> val]

\* One read sent to the backend: a select on a table or a call of a procedure.
ReadOf(kind, target, filters, logic) ==
    [kind |-> kind, target |-> target, filters |-> filters, logic |-> logic]

(***************************************************************************)
(* What the backend answers.                                               *)
(***************************************************************************)
SameValue(v, w) == v.k = w.k /\ v.n = w.n /\ v.s = w.s

\* Whether a stored row satisfies one filter.
Satisfies(row, f) ==
    LET x == row.data[f.col] IN
    CASE f.op = "eq" -> SameValue(x, f.val)
      [] f.op = "neq" -> ~SameValue(x, f.val)
      [] f.op = "is_null" -> x.k = "null"
      [] f.op = "not_null" -> x.k # "null"
      [] f.op = "in" -> x.k = "num" /\ x.n \in f.val.a
      [] f.op = "ilike" -> x.k = "str" /\ x.s = LikeCore(f.val.s)
      [] f.op = "gt" -> x.k \in {"num", "date"} /\ f.val.k = x.k /\ x.n > f.val.n
      [] f.op = "gte" -> x.k \in {"num", "date"} /\ f.val.k = x.k /\ x.n >= f.val.n
      [] f.op = "lt" -> x.k \in {"num", "date"} /\ f.val.k = x.k /\ x.n < f.val.n
      [] f.op = "lte" -> x.k \in {"num", "date"} /\ f.val.k = x.k /\ x.n <= f.val.n
      [] OTHER -> FALSE

\* .or(...) takes one textual expression; an array written by JSON.stringify
\* ("emp_id.in.[1,2]") is not the backend's list syntax and is refused.
Malformed(f, logic) == logic = "OR" /\ f.op = "in"

\* The rows a filtered select keeps: all filters (AND) or any filter (OR).
Keeps(row, filters, logic) ==
    IF logic = "OR" /\ filters # {}
    THEN \E f \in filters : Satisfies(row, f)
    ELSE \A f \in filters : Satisfies(row, f)

\* The backend refuses a read of an unknown table or column.
Refused(tbl, cols, filters, logic) ==
    \/ tbl \notin BackendTables
    \/ \E c \in cols : c \notin TableColumns(tbl)
    \/ \E f \in filters :
          f.col \notin TableColumns(tbl) \/ Malformed(f, logic) \/ f.val.k = "baddate"

Project(row, cols) ==
    [row EXCEPT !.data = [c \in (IF cols = {} THEN DOMAIN row.data ELSE cols) |-> row.data[c]]]

FirstN(rows, n) == IF n > 0 /\ Len(rows) > n THEN SubSeq(rows, 1, n) ELSE rows

\* Row r sorts strictly before row t under .order(column, {ascending:
\* direction === 'asc'}) applied for each entry of orderBy in turn; numbers
\* and dates are compared, other values tie.
RECURSIVE Precedes(_, _, _)
Precedes(r, t, orderBy) ==
    IF orderBy = <<>> THEN FALSE
    ELSE IF r.data[orderBy[1].column].n = t.data[orderBy[1].column].n
    THEN Precedes(r, t, Tail(orderBy))
    ELSE IF orderBy[1].direction = "asc"
    THEN r.data[orderBy[1].column].n < t.data[orderBy[1].column].n
    ELSE r.data[orderBy[1].column].n > t.data[orderBy[1].column].n

\* The rows in the requested order; rows that tie keep the stored order.
Ordered(rows, orderBy) ==
    [k \in 1..Len(rows) |->
        rows[CHOOSE i \in 1..Len(rows) :
                Cardinality({j \in 1..Len(rows) :
                                \/ Precedes(rows[j], rows[i], orderBy)
                                \/ j < i /\ ~Precedes(rows[i], rows[j], orderBy)}) = k - 1]]

\* select(cols) with filters, an order and a limit.
BackendSelect(tbl, cols, filters, logic, orderBy, limit) ==
    LET kept == Ordered(SelectSeq(TableRows(tbl), LAMBDA r : Keeps(r, filters, logic)), orderBy)
    IN FirstN([i \in 1..Len(kept) |-> Project(kept[i], cols)], limit)

RECURSIVE SumN(_, _)
SumN(rows, col) ==
    IF rows = <<>> THEN 0 ELSE rows[1].data[col].n + SumN(Tail(rows), col)

Owners(rows) == UNION {rows[i].owners : i \in 1..Len(rows)}

\* The value of one aggregate function over the kept rows.
AggValue(fn, arg, rows) ==
    CASE fn = "COUNT" -> Num(Len(rows))
      [] rows = <<>> -> Null
      [] fn = "SUM" -> Num(SumN(rows, arg))
      [] fn = "AVG" -> Num(SumN(rows, arg) \div Len(rows))
      [] OTHER -> rows[1].data[arg]

(***************************************************************************)
(* executeSubquery and executeQuery (src/unnamed/part_004).  The           *)
(* environment's part of a call is env: env.sub is how the backend answers *)
(* a subquery lookup and env.main how it answers the main read, each       *)
(* "ok", "error" (the reply carries an error) or "null" (neither data nor  *)
(* error).  The result is [err, isNull, rows, reads]: what was thrown,     *)
(* whether null was returned, the rows, and the reads sent, in order.      *)
(***************************************************************************)
Outcome(err, isNull, rows, reads) ==
    [err |-> err, isNull |-> isNull, rows |-> rows, reads |-> reads]

\* The error a backend reply carries: its message is the backend's own text.
BackendError(stage) == Thrown(FALSE, FALSE, stage)

\* new Error(`RPC Error: ${rpcError.message}`) and the executor's own messages
ExecutorError(stage) == Thrown(TRUE, FALSE, stage)

\* new Error(`Unsupported subquery structure/conditions: ${subquery}`)
UnsupportedSubquery(s) == Thrown(TRUE, IncludesCouldNotUnderstand(s), "subquery")

SubqueryFilters(s) ==
    LET first == IF FirstNameMatch(s) # ""
                 THEN {Filter("first_name", "ilike", Str(FirstNameMatch(s)))} ELSE {}
        last == IF LastNameMatch(s) # ""
                THEN {Filter("last_name", "ilike", Str(LastNameMatch(s)))} ELSE {}
    IN IF first \cup last # {} THEN first \cup last
       ELSE IF EmpIdDirectMatch(s) # 0
            THEN {Filter("emp_id", "eq", Num(EmpIdDirectMatch(s)))} ELSE {}

RowIds(rows) == {rows[i].data["emp_id"].n : i \in 1..Len(rows)}

\* executeSubquery(subquery): [err, ids, reads]
ExecuteSubquery(s, out) ==
    IF ~HasSupportedPrefix(s) \/ SubqueryFilters(s) = {}
    THEN [err |-> UnsupportedSubquery(s), ids |-> {}, reads |-> <<>>]
    ELSE LET read == ReadOf("from", "employees", SubqueryFilters(s), "AND") IN
         CASE out = "error" ->
                [err |-> BackendError("subquery"), ids |-> {}, reads |-> <<read>>]
           [] out = "null" ->
                [err |-> NoError, ids |-> {}, reads |-> <<read>>]
           [] OTHER ->
                [err |-> NoError,
                 ids |-> RowIds(BackendSelect("employees", {"emp_id"}, SubqueryFilters(s), "AND", <<>>, 0)),
                 reads |-> <<read>>]

\* The condition is an '=' on a string written as '(SELECT ... )'.
IsSubqueryCondition(c) ==
    c.operator = "=" /\ c.value.k = "str" /\ IsSubqueryShaped(c.value.s)

\* The pre-pass over the copied conditions: [err, conditions, reads].
RECURSIVE SubqueryPass(_, _, _, _)
SubqueryPass(keys, conditions, reads, out) ==
    IF keys = {} THEN [err |-> NoError, conditions |-> conditions, reads |-> reads]
    ELSE LET key == CHOOSE c \in keys : TRUE
             r == ExecuteSubquery(conditions[key].value.s, out)
         IN IF r.err.thrown
            THEN [err |-> r.err, conditions |-> conditions, reads |-> reads \o r.reads]
            ELSE SubqueryPass(keys \ {key},
                              [conditions EXCEPT ![key] = Cond("in", Arr(r.ids))],
                              reads \o r.reads, out)

\* operator.toUpperCase()
Upper(op) == CASE op = "in" -> "IN" [] op = "like" -> "LIKE" [] op = "between" -> "BETWEEN" [] OTHER -> op

\* The filter one condition becomes (the switch on the operator).
ToFilter(key, c) ==
    LET op == Upper(c.operator) IN
    CASE op = "=" -> IF c.value.k = "null" THEN Filter(key, "is_null", Null)
                     ELSE Filter(key, "eq", c.value)
      [] op = "IN" -> Filter(key, "in", IF c.value.k = "arr" THEN c.value ELSE Arr({c.value.n}))
      [] op = "LIKE" -> Filter(key, "ilike", c.value)
      [] op = ">" -> Filter(key, "gt", c.value)
      [] op = ">=" -> Filter(key, "gte", c.value)
      [] op = "<" -> Filter(key, "lt", c.value)
      [] op = "<=" -> Filter(key, "lte", c.value)
      [] op \in {"!=", "<>"} -> IF c.value.k = "null" THEN Filter(key, "not_null", Null)
                                ELSE Filter(key, "neq", c.value)
      [] OTHER -> Filter(key, "eq", c.value)

\* case 'BETWEEN' with a string value
IsBetween(c) == Upper(c.operator) = "BETWEEN" /\ c.value.k = "str"

\* The filters one condition adds.  BETWEEN adds its two bounds one by one
\* (gte and lte chained under AND, two entries of orFilters under OR); a
\* BETWEEN whose value is no string adds nothing but a warning.
ConditionFilters(key, c, clock) ==
    IF IsBetween(c)
    THEN {Filter(key, "gte", DateVal(ParseSQLiteDate(BetweenParts(c.value.s)[1], clock))),
          Filter(key, "lte", DateVal(ParseSQLiteDate(BetweenParts(c.value.s)[2], clock)))}
    ELSE IF Upper(c.operator) = "BETWEEN" THEN {}
    ELSE {ToFilter(key, c)}

\* parts.length !== 2 for some BETWEEN condition: Invalid BETWEEN format
InvalidBetween(conditions) ==
    \E key \in DOMAIN conditions :
        IsBetween(conditions[key]) /\ Len(BetweenParts(conditions[key].value.s)) # 2

ToFilters(conditions, clock) ==
    UNION {ConditionFilters(key, conditions[key], clock) : key \in DOMAIN conditions}

ColumnSet(q) == {q.columns[i] : i \in 1..Len(q.columns)}

IsPlain(c) == c.fn = "" /\ c.alias = ""

\* col.match(/^(\w+)\(([^)]+)\)$/): a function call and nothing after it
IsBareCall(c) == c.fn # "" /\ c.alias = ""

\* func.toLowerCase()
Lower(fn) ==
    CASE fn = "SUM" -> "sum" [] fn = "AVG" -> "avg" [] fn = "COUNT" -> "count"
      [] fn = "MAX" -> "max" [] fn = "MIN" -> "min" [] OTHER -> fn

\* func.toLowerCase() + (column === '*' ? '_all' : '_' + column)
GenericAlias(c) == Lower(c.fn) \o (IF c.arg = "*" THEN "_all" ELSE "_" \o c.arg)

(***************************************************************************)
(* The five pre-defined procedures: the shape tests and the procedures'    *)
(* answers.  A procedure ignores the query: it computes over every         *)
(* stored row of its table.                                                *)
(***************************************************************************)
IsAvgSalary(c) == c.fn = "AVG" /\ c.arg = "salary"

AliasOr(c, default) == IF c.alias # "" THEN c.alias ELSE default

IsDepartment(c) == IsPlain(c) /\ c.arg = "department"

IsCountAll(c) == c.fn = "COUNT" /\ c.arg = "*"

\* col.toLowerCase().includes('emp_id')
MentionsEmpId(c) == c.arg = "emp_id"

IsSumDays(c) == c.fn = "SUM" /\ c.arg = "days"

\* The column tests of the shape checks, by name.
ColumnTest(test, c) ==
    CASE test = "avg_salary" -> IsAvgSalary(c)
      [] test = "department" -> IsDepartment(c)
      [] test = "count_all" -> IsCountAll(c)
      [] test = "emp_id" -> MentionsEmpId(c)
      [] test = "sum_days" -> IsSumDays(c)
      [] OTHER -> FALSE

\* query.columns.find(...) for a column test that some column passes
FindColumn(q, test) ==
    q.columns[CHOOSE i \in 1..Len(q.columns) :
                 ColumnTest(test, q.columns[i])
                 /\ \A j \in 1..(i - 1) : ~ColumnTest(test, q.columns[j])]

\* query.columns.some(...)
HasColumn(q, test) == \E i \in 1..Len(q.columns) : ColumnTest(test, q.columns[i])

IsAvgSalaryShape(q) ==
    /\ q.table = "employees"
    /\ Len(q.columns) = 1 /\ IsAvgSalary(q.columns[1])
    /\ DOMAIN q.conditions = {}
    /\ q.groupBy = <<>> /\ q.orderBy = <<>> /\ q.limit = 0

IsDeptAvgShape(q) ==
    /\ q.table = "employees"
    /\ HasColumn(q, "department") /\ HasColumn(q, "avg_salary")
    /\ Len(q.columns) = 2
    /\ DOMAIN q.conditions = {}
    /\ Len(q.orderBy) = 1
    /\ \/ q.orderBy[1].column = "AVG(salary)"
       \/ /\ FindColumn(q, "avg_salary").alias # ""
          /\ q.orderBy[1].column = FindColumn(q, "avg_salary").alias
    /\ q.orderBy[1].direction = "desc"
    /\ q.limit = 1

\* typeof empIdValue === 'string' ? parseInt(empIdValue, 10) : empIdValue,
\* -1 when the result is not a number (NaN, or the array the pre-pass wrote).
WorkHoursEmpId(conditions) ==
    CASE conditions["emp_id"].value.k = "num" -> conditions["emp_id"].value.n
      [] conditions["emp_id"].value.k = "str" -> ParseInt(conditions["emp_id"].value.s)
      [] OTHER -> -1

\* The test of the work-hours shape and of its two inner ifs; conditions is
\* the copy the pre-pass rewrote.
IsWorkHoursShape(q, conditions) ==
    /\ q.table = "attendance"
    /\ Len(q.columns) = 1 /\ q.columns[1] = Agg("SUM", "total_hours", "")
    /\ "emp_id" \in DOMAIN conditions
    /\ "date" \in DOMAIN conditions
    /\ Upper(conditions["date"].operator) = "BETWEEN"
    /\ WorkHoursEmpId(conditions) >= 0
    /\ conditions["date"].value.k = "str"
    /\ Len(BetweenParts(conditions["date"].value.s)) = 2

IsMostAbsencesShape(q) ==
    /\ q.type = "AGGREGATE"
    /\ q.table = "attendance"
    /\ HasColumn(q, "count_all")
    /\ FindColumn(q, "count_all").alias # ""
    /\ Col("emp_id") \in ColumnSet(q)
    /\ "status" \in DOMAIN q.conditions
    /\ q.conditions["status"].operator = "="
    /\ SameValue(q.conditions["status"].value, Str("absent"))
    /\ Len(q.orderBy) = 1
    /\ q.orderBy[1].column = FindColumn(q, "count_all").alias
    /\ q.limit = 1

IsMostLeaveShape(q) ==
    /\ q.table = "leave_requests"
    /\ Len(q.columns) = 2
    /\ HasColumn(q, "emp_id") /\ HasColumn(q, "sum_days")
    /\ FindColumn(q, "sum_days").alias # ""
    /\ Len(q.orderBy) = 1
    /\ q.orderBy[1].column = FindColumn(q, "sum_days").alias
    /\ q.orderBy[1].direction = "desc"
    /\ q.limit = 1

AbsentRows(e) ==
    SelectSeq(TableRows("attendance"),
              LAMBDA r : r.data["emp_id"].n = e /\ r.data["status"].s = "absent")

\* get_employee_with_most_absences: the employee with the most absent rows.
MostAbsent ==
    CHOOSE e \in EmployeeIds :
        \A f \in EmployeeIds :
            \/ Len(AbsentRows(e)) > Len(AbsentRows(f))
            \/ Len(AbsentRows(e)) = Len(AbsentRows(f)) /\ e <= f

LeaveRows(e) ==
    SelectSeq(TableRows("leave_requests"), LAMBDA r : r.data["emp_id"].n = e)

\* get_employee_with_most_leave: the employee with the most leave days.
MostLeave ==
    CHOOSE e \in EmployeeIds :
        \A f \in EmployeeIds :
            \/ SumN(LeaveRows(e), "days") > SumN(LeaveRows(f), "days")
            \/ SumN(LeaveRows(e), "days") = SumN(LeaveRows(f), "days") /\ e <= f

\* get_employee_work_hours: the employee's rows dated from start to end.
HoursRows(e, start, end) ==
    SelectSeq(TableRows("attendance"),
              LAMBDA r : /\ r.data["emp_id"].n = e
                         /\ Satisfies(r, Filter("date", "gte", start))
                         /\ Satisfies(r, Filter("date", "lte", end)))

RpcRow(owners, data) == [tbl |-> "rpc", owners |-> owners, data |-> data]

\* What one procedure path of executeQuery returns for the backend's answer.
RpcOutcome(name, out, rows, read) ==
    CASE out = "error" -> Outcome(ExecutorError("execute"), FALSE, <<>>, <<read>>)
      [] out = "null" ->
            Outcome(NoError, name = "get_employee_with_most_absences", <<>>, <<read>>)
      [] OTHER -> Outcome(NoError, FALSE, rows, <<read>>)

\* Faulty variant of AvgSalaryPath: the query is answered by the aggregate
\* fallback's select.
AvgSalaryPath_Generic(q, out) ==
    RpcOutcome("select", out,
        <<RpcRow(EmployeeIds,
                 GenericAlias(q.columns[1]) :> AggValue("AVG", "salary", TableRows("employees")))>>,
        ReadOf("from", q.table, {}, "AND"))

AvgSalaryPath(q, out) ==
    RpcOutcome("get_average_salary", out,
        <<RpcRow(EmployeeIds,
                 (AliasOr(FindColumn(q, "avg_salary"), "avg_salary")) :>
                     AggValue("AVG", "salary", TableRows("employees")))>>,
        ReadOf("rpc", "get_average_salary", {}, ""))

DeptAvgPath(q, out) ==
    RpcOutcome("get_department_with_highest_avg_salary", out,
        <<RpcRow(EmployeeIds,
                 ("department" :> Str("IT")) @@
                 ((AliasOr(FindColumn(q, "avg_salary"), "avg_salary")) :>
                     AggValue("AVG", "salary", TableRows("employees"))))>>,
        ReadOf("rpc", "get_department_with_highest_avg_salary", {}, ""))

\* The work-hours path answers one row in every case: 0 hours when the
\* procedure returns no data.
WorkHoursPath(q, conditions, out, clock) ==
    LET e == WorkHoursEmpId(conditions)
        bounds == ConditionFilters("date", conditions["date"], clock)
        start == (CHOOSE f \in bounds : f.op = "gte").val
        end == (CHOOSE f \in bounds : f.op = "lte").val
        read == ReadOf("rpc", "get_employee_work_hours",
                       {Filter("emp_id", "eq", Num(e))} \cup bounds, "")
    IN IF out = "null"
       THEN Outcome(NoError, FALSE, <<RpcRow({}, "sum_total_hours" :> Num(0))>>, <<read>>)
       ELSE IF "baddate" \in {start.k, end.k}
       THEN Outcome(ExecutorError("execute"), FALSE, <<>>, <<read>>)
       ELSE RpcOutcome("get_employee_work_hours", out,
                <<RpcRow({e} \cap EmployeeIds,
                         "sum_total_hours" :> Num(SumN(HoursRows(e, start, end), "total_hours")))>>,
                read)

MostAbsencesPath(q, out) ==
    RpcOutcome("get_employee_with_most_absences", out,
        <<RpcRow({MostAbsent},
                 ("emp_id" :> Num(MostAbsent)) @@
                 (FindColumn(q, "count_all").alias :> Num(Len(AbsentRows(MostAbsent)))))>>,
        ReadOf("rpc", "get_employee_with_most_absences", {}, ""))

MostLeavePath(q, out) ==
    RpcOutcome("get_employee_with_most_leave", out,
        <<RpcRow({MostLeave},
                 ("emp_id" :> Num(MostLeave)) @@
                 (FindColumn(q, "sum_days").alias :> Num(SumN(LeaveRows(MostLeave), "days"))))>>,
        ReadOf("rpc", "get_employee_with_most_leave", {}, ""))

(***************************************************************************)
(* The generic paths.                                                      *)
(***************************************************************************)
\* What a select answers: refused reads and env.main = "error" carry an
\* error, which executeQuery throws as it is.
SelectOutcome(out, refused, rows, read) ==
    CASE out = "error" \/ refused -> Outcome(BackendError("execute"), FALSE, <<>>, <<read>>)
      [] out = "null" -> Outcome(NoError, TRUE, <<>>, <<read>>)
      [] OTHER -> Outcome(NoError, FALSE, rows, <<read>>)

PlainArgs(q) == {c.arg : c \in {d \in ColumnSet(q) : IsPlain(d)}}

BareCalls(q) == {c \in ColumnSet(q) : IsBareCall(c)}

SameGroup(r, t, cols) == \A c \in cols : SameValue(r.data[c], t.data[c])

\* The rows of r's group among kept.
GroupOf(kept, r, cols) == SelectSeq(kept, LAMBDA t : SameGroup(r, t, cols))

\* The aggregated row of r's group: its grouping columns and one field per call.
GroupRow(q, kept, r) ==
    LET g == GroupOf(kept, r, PlainArgs(q)) IN
    [tbl |-> q.table,
     owners |-> Owners(g),
     data |-> [k \in PlainArgs(q) \cup {GenericAlias(c) : c \in BareCalls(q)} |->
                  IF k \in PlainArgs(q) THEN r.data[k]
                  ELSE LET c == CHOOSE d \in BareCalls(q) : GenericAlias(d) = k
                       IN AggValue(c.fn, c.arg, g)]]

\* select("alias:fn(col), ...") : one row per group of the grouping columns,
\* one row in all when there are none.
BackendAggregate(q, filters) ==
    LET kept == SelectSeq(TableRows(q.table), LAMBDA r : Keeps(r, filters, "AND"))
        firsts == {i \in 1..Len(kept) :
                      \A j \in 1..(i - 1) : ~SameGroup(kept[i], kept[j], PlainArgs(q))}
    IN IF PlainArgs(q) = {}
       THEN <<[tbl |-> q.table, owners |-> Owners(kept),
               data |-> [k \in {GenericAlias(c) : c \in BareCalls(q)} |->
                            LET c == CHOOSE d \in BareCalls(q) : GenericAlias(d) = k
                            IN AggValue(c.fn, c.arg, kept)]]>>
       ELSE LET picked == SelectSeq([i \in 1..Len(kept) |-> [i |-> i, r |-> kept[i]]],
                                    LAMBDA x : x.i \in firsts)
            IN [i \in 1..Len(picked) |-> GroupRow(q, kept, picked[i].r)]

\* A column that is neither a plain name nor a bare call ("f(x) AS a") is
\* written into the select string as it stands, which the backend refuses.
AggregateRefused(q, filters) ==
    \/ \E c \in ColumnSet(q) : ~IsPlain(c) /\ ~IsBareCall(c)
    \/ Refused(q.table, (PlainArgs(q) \cup {c.arg : c \in BareCalls(q)}) \ {"*"}, filters, "AND")

\* The aggregate fallback: conditions are always a conjunction; no order, no limit.
GenericAggregatePath(q, conditions, out, clock) ==
    LET filters == ToFilters(conditions, clock)
        refused == AggregateRefused(q, filters)
    IN IF InvalidBetween(conditions)
       THEN Outcome(ExecutorError("execute"), FALSE, <<>>, <<>>)
       ELSE SelectOutcome(out, refused,
                          IF refused THEN <<>> ELSE BackendAggregate(q, filters),
                          ReadOf("from", q.table, filters, "AND"))

\* SELECT and COUNT: projection, filters under the query's logic, limit.
GenericSelectPath(q, conditions, out, clock) ==
    LET filters == ToFilters(conditions, clock)
        logic == IF q.conditionLogic = "OR" THEN "OR" ELSE "AND"
        refused == \/ \E c \in ColumnSet(q) : ~IsPlain(c)
                   \/ Refused(q.table,
                              PlainArgs(q) \cup {q.orderBy[i].column : i \in 1..Len(q.orderBy)},
                              filters, logic)
    IN IF InvalidBetween(conditions)
       THEN Outcome(ExecutorError("execute"), FALSE, <<>>, <<>>)
       ELSE SelectOutcome(out, refused,
                          IF refused THEN <<>>
                          ELSE BackendSelect(q.table, PlainArgs(q), filters, logic,
                                             q.orderBy, q.limit),
                          ReadOf("from", q.table, filters, logic))

\* The path executeQuery takes once the pre-pass is done.
MainPath(q, conditions, out, clock) ==
    IF q.type = "AGGREGATE"
    THEN CASE q.columns = <<>> -> Outcome(ExecutorError("execute"), FALSE, <<>>, <<>>)
           [] IsAvgSalaryShape(q) -> AvgSalaryPath(q, out)
           [] IsDeptAvgShape(q) -> DeptAvgPath(q, out)
           [] IsWorkHoursShape(q, conditions) -> WorkHoursPath(q, conditions, out, clock)
           [] IsMostAbsencesShape(q) -> MostAbsencesPath(q, out)
           [] IsMostLeaveShape(q) -> MostLeavePath(q, out)
           [] OTHER -> GenericAggregatePath(q, conditions, out, clock)
    ELSE GenericSelectPath(q, conditions, out, clock)

\* The main path run on the conditions the pre-pass left, unless it threw.
AfterSubqueryPass(q, pre, out, clock) ==
    IF pre.err.thrown
    THEN Outcome(pre.err, FALSE, <<>>, pre.reads)
    ELSE [MainPath(q, pre.conditions, out, clock) EXCEPT !.reads = pre.reads \o @]

\* Faulty variant of ArgumentConditions: the pre-pass writes to the query's
\* own conditions object.
ArgumentConditions_NoCopy(q, pre) == pre.conditions

\* const conditions = { ...query.conditions }: the pre-pass writes its
\* rewritten conditions to a copy, and the conditions of the query object
\* the caller holds stay what they were.
ArgumentConditions(q, pre) == q.conditions

\* The caller's query object once executeQuery(query) has returned or thrown.
QueryAfterExecute(q, env) ==
    [q EXCEPT !.conditions =
        ArgumentConditions(q,
            SubqueryPass({c \in DOMAIN q.conditions : IsSubqueryCondition(q.conditions[c])},
                         q.conditions, <<>>, env.sub))]

\* executeQuery(query) under the environment env = [sub, main, clock].
ExecuteQuery(q, env) ==
    AfterSubqueryPass(q,
        SubqueryPass({c \in DOMAIN q.conditions : IsSubqueryCondition(q.conditions[c])},
                     q.conditions, <<>>, env.sub),
        env.main, env.clock)

(***************************************************************************)
(* The replies of the language model to the translator's prompt.           *)
(***************************************************************************)
Desc(column) == <<[column |-> column, direction |-> "desc"]>>

StatusIs(v) == "status" :> Cond("=", Str(v))

QAllAttendance == Query("SELECT", "attendance", <<>>, NoConditions, "", <<>>, 0)

QAbsent == Query("SELECT", "attendance", <<>>, StatusIs("absent"), "", <<>>, 0)

QAbsentOfOther ==
    Query("SELECT", "attendance", <<>>,
          StatusIs("absent") @@ ("emp_id" :> Cond("=", Num(MaxEmployeeId))), "", <<>>, 0)

QAbsentOr == Query("SELECT", "attendance", <<>>, StatusIs("absent"), "OR", <<>>, 0)

QNameSearch ==
    Query("SELECT", "employees", <<>>,
          ("first_name" :> Cond("LIKE", Str("%Malee%"))) @@
          ("last_name" :> Cond("LIKE", Str("%Malee%"))), "", <<>>, 0)

QMostAbsences ==
    Query("AGGREGATE", "attendance", <<Col("emp_id"), Agg("COUNT", "*", "absence_count")>>,
          StatusIs("absent"), "", Desc("absence_count"), 1)

QMostLeave ==
    Query("AGGREGATE", "leave_requests", <<Col("emp_id"), Agg("SUM", "days", "total_days")>>,
          NoConditions, "", Desc("total_days"), 1)

QAvgSalary ==
    Query("AGGREGATE", "employees", <<Agg("AVG", "salary", "")>>, NoConditions, "", <<>>, 0)

QAvgSalaryAs ==
    Query("AGGREGATE", "employees", <<Agg("AVG", "salary", "average")>>, NoConditions, "", <<>>, 0)

QSumHours ==
    Query("AGGREGATE", "attendance", <<Agg("SUM", "total_hours", "")>>,
          StatusIs("present"), "", <<>>, 0)

QHoursBetween ==
    Query("AGGREGATE", "attendance", <<Agg("SUM", "total_hours", "")>>,
          ("emp_id" :> Cond("=", Num(1))) @@ ("date" :> Cond("BETWEEN", Str("B_nov"))),
          "", <<>>, 0)

\* The best paid, the least paid, and the number of rows per employee cut
\* to one row.
QPayroll(direction) ==
    Query("SELECT", "payroll", <<>>, NoConditions, "",
          <<[column |-> "net_pay", direction |-> direction]>>, 1)

QCountByEmployee ==
    Query("AGGREGATE", "attendance", <<Col("emp_id"), Agg("COUNT", "*", "")>>,
          NoConditions, "", <<>>, 1)

\* The hours of an employee given as a numeric string or as a name subquery.
QHoursOf(empId) ==
    Query("AGGREGATE", "attendance", <<Agg("SUM", "total_hours", "")>>,
          ("emp_id" :> Cond("=", Str(empId))) @@ ("date" :> Cond("BETWEEN", Str("B_nov"))),
          "", <<>>, 0)

\* Rows of a day, or of a status, under the given conditionLogic.
QBetween(s, status, logic) ==
    Query("SELECT", "attendance", <<>>,
          IF status = "" THEN "date" :> Cond("BETWEEN", Str(s))
          ELSE ("date" :> Cond("BETWEEN", Str(s))) @@ StatusIs(status),
          logic, <<>>, 0)

QNoColumns == Query("AGGREGATE", "attendance", <<>>, NoConditions, "", <<>>, 0)

QNetPay == Query("SELECT", "payroll", <<Col("net_pay")>>, NoConditions, "", <<>>, 0)

QTokens == Query("SELECT", "tokens", <<>>, NoConditions, "", <<>>, 0)

QBySubquery(s) ==
    Query("SELECT", "attendance", <<>>, "emp_id" :> Cond("=", Str(s)), "", <<>>, 0)

QNameBySubquery(s) ==
    Query("SELECT", "employees", <<>>, "first_name" :> Cond("=", Str(s)), "", <<>>, 0)

TranslatorQueries ==
    {QAllAttendance, QAbsent, QAbsentOfOther, QAbsentOr, QNameSearch, QMostAbsences,
     QMostLeave, QAvgSalary, QSumHours, QNoColumns, QNetPay, QTokens}
    \cup {QBySubquery(s) : s \in SubqueryStrings}
    \cup {QNameBySubquery("sq_lower_name"), QAvgSalaryAs, QHoursOf("1"), QHoursOf("SQ_first_malee")}
    \cup {QPayroll("asc"), QPayroll("desc"), QCountByEmployee}
    \cup {QHoursBetween, QBetween("B_nov2", "", ""), QBetween("B_nov2", "", "OR"),
          QBetween("B_nov2", "present", ""), QBetween("B_nov2", "present", "OR"),
          QBetween("B_single", "", "")}

\* A reply is a failed model call, a text that is not JSON, the JSON text
\* "null", or the JSON text of a query.
Reply(kind, query) == [kind |-> kind, query |-> query]

TranslatorReplies ==
    {Reply(k, QAllAttendance) : k \in {"model_error", "unparseable", "null"}}
    \cup {Reply("query", q) : q \in TranslatorQueries}

\* parseNaturalLanguageQuery(message): what it throws for the reply.
TranslatorError(reply) ==
    CASE reply.kind = "model_error" -> Thrown(TRUE, FALSE, "translate")
      [] reply.kind = "unparseable" -> Thrown(TRUE, TRUE, "translate_parse")
      [] OTHER -> NoError

(***************************************************************************)
(* The request handler POST of database-chat/route.ts.                     *)
(***************************************************************************)
\* A request body: not JSON at all, or an object with message and
\* employeeId (0: null, as the client sends it when no employee is selected).
Body(malformed, message, employeeId) ==
    [malformed |-> malformed, message |-> message, employeeId |-> employeeId]

Bodies ==
    {Body(TRUE, <<>>, 0)}
    \cup {Body(FALSE, m, e) : m \in Messages, e \in 0..MaxEmployeeId}

NoQuery == Query("", "", <<>>, NoConditions, "", <<>>, 0)

\* NextResponse.json(body, {status}): fields are the names of the body's
\* fields, text the string of its reply, answer or error field.
Response(status, fields, text, restricted, personalized, resultsCount, query) ==
    [status |-> status, fields |-> fields, text |-> text, restricted |-> restricted,
     personalized |-> personalized, resultsCount |-> resultsCount, queryStructure |-> query]

Refusal == Response(200, {"reply", "restricted"}, "REFUSAL", TRUE, FALSE, 0, NoQuery)

Clarification == Response(200, {"answer"}, "CLARIFICATION", FALSE, FALSE, 0, NoQuery)

MessageRequired == Response(400, {"error"}, "MESSAGE_REQUIRED", FALSE, FALSE, 0, NoQuery)

\* The catch block: the friendlier text for an Error whose message includes
\* 'Could not understand', the generic text otherwise.
CatchResponse(err) ==
    Response(500, {"error"},
             IF err.isError /\ err.phrase THEN "DID_NOT_UNDERSTAND" ELSE "GENERIC_FAILURE",
             FALSE, FALSE, 0, NoQuery)

\* The same-value name search on employees is switched to OR.
IsNameSearch(q) ==
    /\ q.table = "employees"
    /\ {"first_name", "last_name"} \subseteq DOMAIN q.conditions
    /\ q.conditions["first_name"].operator = "LIKE"
    /\ q.conditions["last_name"].operator = "LIKE"
    /\ SameValue(q.conditions["first_name"].value, q.conditions["last_name"].value)

WithNameSearchLogic(q) == IF IsNameSearch(q) THEN [q EXCEPT !.conditionLogic = "OR"] ELSE q

\* Faulty variant of WithEmployeeFilter: an emp_id condition of the translator is kept.
WithEmployeeFilter_KeepExisting(q, employeeId) ==
    [q EXCEPT !.conditions =
        [c \in DOMAIN q.conditions \cup {"emp_id"} |->
            IF c \in DOMAIN q.conditions THEN q.conditions[c]
            ELSE Cond("=", Num(employeeId))]]

\* queryStructure.conditions.emp_id = { operator: '=', value: Number(employeeId) }
WithEmployeeFilter(q, employeeId) ==
    [q EXCEPT !.conditions =
        [c \in DOMAIN q.conditions \cup {"emp_id"} |->
            IF c = "emp_id" THEN Cond("=", Num(employeeId)) ELSE q.conditions[c]]]

\* Faulty variant of Scoped: the filter is added for every selected employee,
\* personal question or not.
Scoped_AlwaysFilter(q, personal, employeeId) ==
    IF employeeId # 0 /\ q.table \in KnownEntities
    THEN WithEmployeeFilter(WithNameSearchLogic(q), employeeId)
    ELSE WithNameSearchLogic(q)

\* The query handed to executeQuery (lines 184-230).
Scoped(q, personal, employeeId) ==
    IF personal /\ employeeId # 0 /\ q.table \in KnownEntities
    THEN WithEmployeeFilter(WithNameSearchLogic(q), employeeId)
    ELSE WithNameSearchLogic(q)

\* The identity-enrichment lookup for the ids found in the rows.
EmployeeNameQuery(ids) ==
    Query("SELECT", "employees", <<Col("emp_id"), Col("first_name"), Col("last_name")>>,
          "emp_id" :> Cond("IN", Arr(ids)), "", <<>>, 0)

\* results[0].hasOwnProperty('emp_id') and some id is not null
NeedsEnrichment(res) ==
    /\ ~res.isNull
    /\ res.rows # <<>>
    /\ "emp_id" \in DOMAIN res.rows[1].data
    /\ \E i \in 1..Len(res.rows) :
          "emp_id" \in DOMAIN res.rows[i].data /\ res.rows[i].data["emp_id"].k # "null"

ResultIds(res) ==
    {res.rows[i].data["emp_id"].n :
        i \in {j \in 1..Len(res.rows) :
                  "emp_id" \in DOMAIN res.rows[j].data /\ res.rows[j].data["emp_id"].k = "num"}}

\* `${first_name} ${last_name}` of the looked-up employee, null when not found
FullName(details, row) ==
    LET hits == SelectSeq(details,
                    LAMBDA d : "emp_id" \in DOMAIN row.data
                               /\ SameValue(d.data["emp_id"], row.data["emp_id"]))
    IN IF hits = <<>> THEN Null
       ELSE Str(hits[1].data["first_name"].s \o " " \o hits[1].data["last_name"].s)

Enriched(rows, details) ==
    [i \in 1..Len(rows) |->
        [rows[i] EXCEPT !.data = ("employee_full_name" :> FullName(details, rows[i])) @@ @]]

VARIABLES
    pc,              \* where the handler is: idle, translating, executing, enriching, narrating, done
    body,            \* the request body
    isPersonalQuestion,
    translated,      \* the query as the translator returned it
    queryStructure,  \* the handler's query object
    results,         \* [isNull, rows]: what executeQuery returned
    responses,       \* the responses sent
    escaped,         \* an exception left the handler
    translatorCalls, \* number of calls of parseNaturalLanguageQuery
    executorCalls,   \* the queries handed to executeQuery, in order
    backendReads,    \* the reads sent to the backend, in order
    narratorCalls,   \* the calls of formatResultsAsNaturalLanguage
    failures         \* the stages of this request at which something failed

vars == <<pc, body, isPersonalQuestion, translated, queryStructure, results, responses,
          escaped, translatorCalls, executorCalls, backendReads, narratorCalls, failures>>

\* The socket server (src/server.js): its module-level currentUser and the
\* sockets, handlers and messages around it.
VARIABLES
    currentUser,     \* [socketId, empId]; socketId = 0 is null
    sockets,         \* per socket: "new", "connected" or "closed"
    loginLookups,    \* login handlers waiting at await pool.query: [socketId, empId]
    chatCalls,       \* chat handlers waiting at await processUserQuery: [socketId, empId]
    emitted          \* the messages sent with socket.emit: [socketId, event, success]

socketVars == <<currentUser, sockets, loginLookups, chatCalls, emitted>>

\* The date normalizer applied to the two endpoints of a BETWEEN value.
VARIABLES
    clock,           \* [today, west]: what new Date() answers during the calls
    dateInputs,      \* the two endpoint texts
    normalized,      \* parseSQLiteDate of each, <<>> before the calls
    renormalized     \* parseSQLiteDate of each result, <<>> before the calls

normalizerVars == <<clock, dateInputs, normalized, renormalized>>

\* The variables of the components other than the database-chat request.
otherVars == <<socketVars, normalizerVars>>

allVars == <<vars, otherVars>>

NoResults == [isNull |-> FALSE, rows |-> <<>>]

MaxSockets == 2

Sockets == 1..MaxSockets

\* let currentUser = null, and no client has connected yet.
SocketInit ==
    /\ currentUser = [socketId |-> 0, empId |-> 0]
    /\ sockets = [s \in Sockets |-> "new"]
    /\ loginLookups = {}
    /\ chatCalls = {}
    /\ emitted = {}

\* Nothing has been normalized yet.
NormalizerIdle ==
    /\ clock = [today |-> Ymd(2026, 11, 6), west |-> FALSE]
    /\ dateInputs = <<Ymd(2026, 11, 6), Ymd(2026, 11, 6)>>
    /\ normalized = <<>>
    /\ renormalized = <<>>

\* No request has arrived.
RequestInit ==
    /\ pc = "idle"
    /\ body = Body(TRUE, <<>>, 0)
    /\ isPersonalQuestion = FALSE
    /\ translated = NoQuery
    /\ queryStructure = NoQuery
    /\ results = NoResults
    /\ responses = <<>>
    /\ escaped = FALSE
    /\ translatorCalls = 0
    /\ executorCalls = <<>>
    /\ backendReads = <<>>
    /\ narratorCalls = <<>>
    /\ failures = {}

Init == RequestInit /\ SocketInit /\ NormalizerIdle

\* return NextResponse.json(...): the handler is finished.
Respond(r) ==
    /\ responses' = Append(responses, r)
    /\ pc' = "done"

\* Faulty variant of Catch: the error is thrown again.
Catch_Rethrow(err) ==
    /\ responses' = responses
    /\ pc' = "done"
    /\ failures' = failures \cup {err.stage}
    /\ escaped' = TRUE

\* catch (error) { ... return NextResponse.json({ error }, { status: 500 }) }
Catch(err) ==
    /\ Respond(CatchResponse(err))
    /\ failures' = failures \cup {err.stage}
    /\ escaped' = escaped

\* formatResultsAsNaturalLanguage(message, safeResults, queryStructure, employeeId ? true : false)
NarratorCall(res) ==
    [rows |-> res.rows, query |-> queryStructure', personalized |-> body.employeeId # 0]

\* Faulty variant of IsAccessingOtherEmployeeData: only the salary pattern is tried.
IsAccessingOtherEmployeeData_SalaryOnly(b) ==
    b.employeeId # 0 /\ OtherPattern1(b.message)

\* employeeId && OTHER_EMPLOYEE_PATTERNS.some(pattern => pattern.test(message))
IsAccessingOtherEmployeeData(b) ==
    b.employeeId # 0 /\ MatchesOther(b.message)

\* Lines 155-182: read the body, require a message, refuse a question about
\* another employee, classify the question and call the translator.
Post(b) ==
    /\ pc = "idle"
    /\ UNCHANGED otherVars
    /\ body' = b
    /\ UNCHANGED <<translated, queryStructure, results, executorCalls, backendReads,
                   narratorCalls>>
    /\ IF b.malformed
       THEN /\ Catch(Thrown(TRUE, FALSE, "request"))
            /\ UNCHANGED <<isPersonalQuestion, translatorCalls>>
       ELSE IF b.message = <<>>
       THEN /\ Respond(MessageRequired)
            /\ UNCHANGED <<isPersonalQuestion, translatorCalls, failures, escaped>>
       ELSE IF IsAccessingOtherEmployeeData(b)
       THEN /\ Respond(Refusal)
            /\ UNCHANGED <<isPersonalQuestion, translatorCalls, failures, escaped>>
       ELSE /\ isPersonalQuestion' = MatchesPersonal(b.message)
            /\ translatorCalls' = translatorCalls + 1
            /\ pc' = "translating"
            /\ UNCHANGED <<responses, failures, escaped>>

\* Lines 182-233: the translator returns or throws; the name-search rewrite,
\* the clarification, the employee filter, and the call of executeQuery.
Translate(reply) ==
    /\ pc = "translating"
    /\ UNCHANGED otherVars
    /\ UNCHANGED <<body, isPersonalQuestion, results, translatorCalls, backendReads,
                   narratorCalls>>
    /\ IF TranslatorError(reply).thrown
       THEN /\ Catch(TranslatorError(reply))
            /\ UNCHANGED <<translated, queryStructure, executorCalls>>
       ELSE IF reply.kind = "null"
       THEN \* queryStructure.table on null: a TypeError
            /\ Catch(Thrown(TRUE, FALSE, "translate_shape"))
            /\ UNCHANGED <<translated, queryStructure, executorCalls>>
       ELSE IF isPersonalQuestion /\ body.employeeId = 0
       THEN /\ translated' = reply.query
            /\ queryStructure' = WithNameSearchLogic(reply.query)
            /\ Respond(Clarification)
            /\ UNCHANGED <<executorCalls, failures, escaped>>
       ELSE /\ translated' = reply.query
            /\ queryStructure' = Scoped(reply.query, isPersonalQuestion, body.employeeId)
            /\ executorCalls' = Append(executorCalls, queryStructure')
            /\ pc' = "executing"
            /\ UNCHANGED <<responses, failures, escaped>>

\* Faulty variant of AfterExecute: the narrator is called before the
\* enrichment lookup as well as after it.
AfterExecute_NarrateEarly(res) ==
    /\ results' = res
    /\ UNCHANGED <<responses, failures, escaped>>
    /\ narratorCalls' = Append(narratorCalls, NarratorCall(res))
    /\ IF NeedsEnrichment(res)
       THEN /\ executorCalls' = Append(executorCalls, EmployeeNameQuery(ResultIds(res)))
            /\ pc' = "enriching"
       ELSE /\ pc' = "narrating"
            /\ UNCHANGED executorCalls

\* Lines 236-279: with the rows in hand, either the enrichment lookup is
\* issued or the narrator is called.
AfterExecute(res) ==
    /\ results' = res
    /\ UNCHANGED <<responses, failures, escaped>>
    /\ IF NeedsEnrichment(res)
       THEN /\ executorCalls' = Append(executorCalls, EmployeeNameQuery(ResultIds(res)))
            /\ pc' = "enriching"
            /\ UNCHANGED narratorCalls
       ELSE /\ narratorCalls' = Append(narratorCalls, NarratorCall(res))
            /\ pc' = "narrating"
            /\ UNCHANGED executorCalls

\* Faulty variant of ExecuteReturns: a throw of executeQuery is swallowed and
\* the request goes on with no rows.
ExecuteReturns_Swallow(r) ==
    /\ backendReads' = backendReads \o r.reads
    /\ UNCHANGED <<body, isPersonalQuestion, translated, translatorCalls,
                   responses, escaped, executorCalls>>
    /\ results' = [isNull |-> r.isNull, rows |-> r.rows]
    /\ failures' = IF r.err.thrown THEN failures \cup {r.err.stage} ELSE failures
    /\ narratorCalls' = Append(narratorCalls, NarratorCall(results'))
    /\ pc' = "narrating"

\* Line 233: executeQuery(queryStructure) returned or threw r.
ExecuteReturns(r) ==
    /\ backendReads' = backendReads \o r.reads
    /\ UNCHANGED <<body, isPersonalQuestion, translated, translatorCalls>>
    /\ IF r.err.thrown
       THEN /\ Catch(r.err)
            /\ UNCHANGED <<results, executorCalls, narratorCalls>>
       ELSE AfterExecute([isNull |-> r.isNull, rows |-> r.rows])

Execute(env) ==
    /\ pc = "executing"
    /\ UNCHANGED otherVars
    /\ queryStructure' = QueryAfterExecute(queryStructure, env)
    /\ ExecuteReturns(ExecuteQuery(queryStructure, env))

\* Lines 248-279: the enrichment lookup returned or threw r (a throw, also
\* the one of iterating over null, is logged and the rows go on without
\* names); the narrator is called.
EnrichReturns(r) ==
    /\ backendReads' = backendReads \o r.reads
    /\ UNCHANGED <<body, isPersonalQuestion, translated, queryStructure, responses, escaped,
                   translatorCalls, executorCalls>>
    /\ results' = IF r.err.thrown \/ r.isNull THEN results
                  ELSE [results EXCEPT !.rows = Enriched(results.rows, r.rows)]
    /\ failures' = IF r.err.thrown \/ r.isNull THEN failures \cup {"enrich"} ELSE failures
    /\ narratorCalls' = Append(narratorCalls, NarratorCall(results'))
    /\ pc' = "narrating"

Enrich(env) ==
    /\ pc = "enriching"
    /\ UNCHANGED otherVars
    /\ EnrichReturns(ExecuteQuery(executorCalls[Len(executorCalls)], env))

\* Lines 274-286: the narrator returns its text or throws.
Narrate(ok) ==
    /\ pc = "narrating"
    /\ UNCHANGED otherVars
    /\ UNCHANGED <<body, isPersonalQuestion, translated, queryStructure, results,
                   translatorCalls, executorCalls, backendReads, narratorCalls>>
    /\ IF ok
       THEN /\ Respond(Response(200, {"reply", "queryStructure", "resultsCount", "personalized"},
                                "NARRATION", FALSE,
                                isPersonalQuestion /\ body.employeeId # 0,
                                IF results.isNull THEN 0 ELSE Len(results.rows),
                                queryStructure))
            /\ UNCHANGED <<failures, escaped>>
       ELSE Catch(Thrown(TRUE, FALSE, "narrate"))

BackendAnswers == {"ok", "error", "null"}

\* The request is served on 6 November 2026, east or west of UTC.
RequestClocks == {[today |-> Ymd(2026, 11, 6), west |-> w] : w \in BOOLEAN}

Environments == [sub : BackendAnswers, main : BackendAnswers, clock : RequestClocks]

Next ==
    \/ \E b \in Bodies : Post(b)
    \/ \E reply \in TranslatorReplies : Translate(reply)
    \/ \E env \in Environments : Execute(env)
    \/ \E env \in Environments : Enrich(env)
    \/ \E ok \in BOOLEAN : Narrate(ok)

Spec == Init /\ [][Next]_allVars

(***************************************************************************)
(* The socket server of src/server.js.  Every handler runs to its first    *)
(* await without interruption; the handlers of other events run while it   *)
(* waits.                                                                  *)
(***************************************************************************)
Emit(s, event, success) ==
    emitted' = emitted \cup {[socketId |-> s, event |-> event, success |-> success]}

\* io.on('connection', (socket) => ...)
Connect(s) ==
    /\ sockets[s] = "new"
    /\ sockets' = [sockets EXCEPT ![s] = "connected"]
    /\ UNCHANGED <<currentUser, loginLookups, chatCalls, emitted, vars, normalizerVars>>

\* socket.on('login') up to await pool.query: refused when another socket
\* is the current user, otherwise the employee lookup is started.
Login(s, empId) ==
    /\ sockets[s] = "connected"
    /\ \A l \in loginLookups : l.socketId # s
    /\ IF currentUser.socketId # 0 /\ currentUser.socketId # s
       THEN Emit(s, "login_response", FALSE) /\ UNCHANGED loginLookups
       ELSE /\ loginLookups' = loginLookups \cup {[socketId |-> s, empId |-> empId]}
            /\ UNCHANGED emitted
    /\ UNCHANGED <<currentUser, sockets, chatCalls, vars, normalizerVars>>

\* socket.on('login') after await pool.query: the row was found, or there
\* is no such employee, or the lookup threw.
LoginLookupReturns(l, outcome) ==
    /\ l \in loginLookups
    /\ loginLookups' = loginLookups \ {l}
    /\ IF outcome = "found"
       THEN /\ currentUser' = [socketId |-> l.socketId, empId |-> l.empId]
            /\ Emit(l.socketId, "login_response", TRUE)
       ELSE /\ Emit(l.socketId, "login_response", FALSE)
            /\ UNCHANGED currentUser
    /\ UNCHANGED <<sockets, chatCalls, vars, normalizerVars>>

\* socket.on('chat_message') up to await processUserQuery
ChatMessage(s) ==
    /\ sockets[s] = "connected"
    /\ \A c \in chatCalls : c.socketId # s
    /\ IF currentUser.socketId # s
       THEN Emit(s, "chat_response", FALSE) /\ UNCHANGED chatCalls
       ELSE /\ chatCalls' = chatCalls \cup {[socketId |-> s, empId |-> currentUser.empId]}
            /\ UNCHANGED emitted
    /\ UNCHANGED <<currentUser, sockets, loginLookups, vars, normalizerVars>>

\* socket.on('chat_message') after await processUserQuery, which returns a
\* text in every case.
ChatReturns(c) ==
    /\ c \in chatCalls
    /\ chatCalls' = chatCalls \ {c}
    /\ Emit(c.socketId, "chat_response", TRUE)
    /\ UNCHANGED <<currentUser, sockets, loginLookups, vars, normalizerVars>>

\* socket.on('disconnect')
Disconnect(s) ==
    /\ sockets[s] = "connected"
    /\ sockets' = [sockets EXCEPT ![s] = "closed"]
    /\ currentUser' = IF currentUser.socketId = s THEN [socketId |-> 0, empId |-> 0]
                      ELSE currentUser
    /\ UNCHANGED <<loginLookups, chatCalls, emitted, vars, normalizerVars>>

SocketNext ==
    \/ \E s \in Sockets : Connect(s)
    \/ \E s \in Sockets, e \in EmployeeIds : Login(s, e)
    \/ \E s \in Sockets, e \in EmployeeIds, o \in {"found", "missing", "error"} :
          LoginLookupReturns([socketId |-> s, empId |-> e], o)
    \/ \E s \in Sockets : ChatMessage(s)
    \/ \E s \in Sockets, e \in EmployeeIds : ChatReturns([socketId |-> s, empId |-> e])
    \/ \E s \in Sockets : Disconnect(s)

SocketSpec == Init /\ [][SocketNext]_allVars

(***************************************************************************)
(* The date normalizer on its own: the clock and two endpoint texts are    *)
(* drawn, the normalizer is applied to each, and then to each result.      *)
(***************************************************************************)
Clocks ==
    [today : {Ymd(2026, 11, 6), Ymd(2026, 1, 15), Ymd(2026, 8, 31)}, west : BOOLEAN]

DateTexts ==
    {Ymd(y, m, d) : y \in {2024, 2025, 2026}, m \in {1, 2, 12, 13}, d \in {1, 29, 31}}
    \cup {DateText("current", 0, 0, 0, 0, "", FALSE),
          DateText("interval", 0, 0, 0, -7, "", FALSE),
          DateText("now", 0, 0, 0, 0, "", FALSE),
          DateText("now", 0, 0, 0, 0, "", TRUE),
          DateText("modifier", 0, 0, 0, -7, "day", FALSE),
          DateText("modifier", 0, 0, 0, -7, "day", TRUE),
          DateText("modifier", 0, 0, 0, -1, "month", TRUE),
          DateText("start", 0, 0, 0, 0, "", FALSE),
          DateText("other", 0, 0, 0, 0, "", FALSE)}

NormalizerInit ==
    /\ RequestInit /\ SocketInit
    /\ clock \in Clocks
    /\ dateInputs \in DateTexts \X DateTexts
    /\ normalized = <<>>
    /\ renormalized = <<>>

\* startDate = parseSQLiteDate(startStr); endDate = parseSQLiteDate(endStr)
Normalize ==
    /\ normalized = <<>>
    /\ normalized' = <<ParseSQLiteDate(dateInputs[1], clock), ParseSQLiteDate(dateInputs[2], clock)>>
    /\ UNCHANGED <<clock, dateInputs, renormalized, vars, socketVars>>

\* The normalizer applied to its own results.
Renormalize ==
    /\ normalized # <<>> /\ renormalized = <<>>
    /\ renormalized' = <<ParseSQLiteDate(normalized[1], clock), ParseSQLiteDate(normalized[2], clock)>>
    /\ UNCHANGED <<clock, dateInputs, normalized, vars, socketVars>>

NormalizerNext == Normalize \/ Renormalize

NormalizerSpec == NormalizerInit /\ [][NormalizerNext]_allVars

(***************************************************************************)
(* Properties of the request pipeline.                                     *)
(***************************************************************************)
Posted == pc # "idle" /\ ~body.malformed

IsSuccess(r) == r.status = 200 /\ "personalized" \in r.fields

IsErrorResponse(r) == r.status \notin 200..299 /\ r.fields = {"error"}

\* Some response of the request is the success response.
Succeeded == \E i \in 1..Len(responses) : IsSuccess(responses[i])

\* C1: when the request carries an employeeId and the question is personal,
\* every row handed to the narrator is made only of that employee's rows.
C1_ScopedCallerSeesOwnRowsOnly ==
    (Posted /\ body.employeeId # 0 /\ isPersonalQuestion) =>
        \A i \in 1..Len(narratorCalls) :
            \A j \in 1..Len(narratorCalls[i].rows) :
                narratorCalls[i].rows[j].owners \subseteq {body.employeeId}

\* C2: with an employeeId and a question the other-employee classifier
\* matches, the request ends at once with the fixed refusal at status 200,
\* restricted = true, and translator, executor and narrator are never called.
C2_RejectIsFixedRefusal ==
    (Posted /\ body.employeeId # 0 /\ MatchesOther(body.message)) =>
        /\ pc = "done"
        /\ Len(responses) = 1
        /\ responses[1].status = 200
        /\ responses[1].fields = {"reply", "restricted"}
        /\ responses[1].text = "REFUSAL"
        /\ responses[1].restricted
        /\ translatorCalls = 0
        /\ executorCalls = <<>>
        /\ backendReads = <<>>
        /\ narratorCalls = <<>>

C2_Witness ==
    /\ Posted /\ body.employeeId # 0
    /\ MatchesOther(body.message) /\ MatchesPersonal(body.message)
    /\ responses # <<>>

\* C3: without an employeeId, a question the personal classifier matches
\* ends with the fixed clarification at status 200, with no backend read
\* and no narrator call.
C3_ClarifyIsFixedMessage ==
    (Posted /\ pc = "done" /\ body.employeeId = 0 /\ MatchesPersonal(body.message)) =>
        /\ Len(responses) = 1
        /\ responses[1].status = 200
        /\ responses[1].text = "CLARIFICATION"
        /\ backendReads = <<>>
        /\ narratorCalls = <<>>

\* C4: for a personal question with an employeeId that is not refused, on one
\* of the five entities, the query handed to the executor has emp_id =
\* employeeId in place of any emp_id condition of the translator, every
\* other condition as translated, and a success response is personalized.
C4_EmployeeFilterInjected ==
    (/\ Posted /\ body.employeeId # 0
     /\ ~MatchesOther(body.message) /\ MatchesPersonal(body.message)
     /\ executorCalls # <<>>
     /\ translated.table \in KnownEntities) =>
        /\ DOMAIN executorCalls[1].conditions = DOMAIN translated.conditions \cup {"emp_id"}
        /\ executorCalls[1].conditions["emp_id"] = Cond("=", Num(body.employeeId))
        /\ \A c \in DOMAIN translated.conditions \ {"emp_id"} :
              executorCalls[1].conditions[c] = translated.conditions[c]
        /\ \A i \in 1..Len(responses) : IsSuccess(responses[i]) => responses[i].personalized

C4_Witness ==
    /\ Posted /\ body.employeeId # 0 /\ MatchesPersonal(body.message)
    /\ executorCalls # <<>>
    /\ "emp_id" \in DOMAIN translated.conditions
    /\ "status" \in DOMAIN translated.conditions
    /\ translated.conditions["emp_id"] # Cond("=", Num(body.employeeId))
    /\ Succeeded

\* C5: when neither classifier matches, the executor receives exactly the
\* translator's conditions, the request is neither refused nor asked to
\* clarify, and a success response has personalized = false.
C5_UnrestrictedPassUnmodified ==
    (/\ Posted /\ body.message # <<>>
     /\ ~MatchesOther(body.message) /\ ~MatchesPersonal(body.message)) =>
        /\ \A i \in 1..Len(responses) : responses[i].text \notin {"REFUSAL", "CLARIFICATION"}
        /\ executorCalls # <<>> => executorCalls[1].conditions = translated.conditions
        /\ \A i \in 1..Len(responses) : IsSuccess(responses[i]) => ~responses[i].personalized

C5_Witness ==
    /\ Posted /\ body.employeeId # 0
    /\ ~MatchesOther(body.message) /\ ~MatchesPersonal(body.message)
    /\ DOMAIN translated.conditions # {}
    /\ Succeeded

\* C6: every response at status 200 carries a reply field; every non-2xx
\* response carries an error field and no reply.
C6_ReplyOrError ==
    \A i \in 1..Len(responses) :
        /\ responses[i].status = 200 => "reply" \in responses[i].fields
        /\ responses[i].status \notin 200..299 =>
              "error" \in responses[i].fields /\ "reply" \notin responses[i].fields

C8_FriendlyIffParseFailure ==
    (pc = "done" /\ failures \ {"enrich"} # {}) =>
        /\ IsErrorResponse(responses[1])
        /\ responses[1].text = "DID_NOT_UNDERSTAND" <=> "translate_parse" \in failures
        /\ responses[1].text \in {"DID_NOT_UNDERSTAND", "GENERIC_FAILURE"}

C10_ReadsOnlyKnownEntities ==
    \A i \in 1..Len(backendReads) :
        backendReads[i].kind = "from" => backendReads[i].target \in KnownEntities

\* Whether a row satisfies the condition on key, read against the filters
\* that were sent: a BETWEEN is satisfied by the rows from the lower bound
\* sent to the upper bound sent, both included.
SatisfiesCondition(row, key, c, read) ==
    IF IsBetween(c)
    THEN \A f \in read.filters : f.col = key => Satisfies(row, f)
    ELSE Satisfies(row, ToFilter(key, c))

\* The conditions of the handler's query that are on a column of the row
\* and are no subquery.
ConditionsOn(row) ==
    {key \in DOMAIN queryStructure.conditions :
        key \in DOMAIN row.data /\ ~IsSubqueryCondition(queryStructure.conditions[key])}

\* C12: when conditionLogic is omitted, every row the executor returned
\* satisfies every condition of the query.
C12_RowsSatisfyEveryCondition ==
    (queryStructure.conditionLogic = "" /\ backendReads # <<>>) =>
        \A i \in 1..Len(results.rows) :
            \A key \in ConditionsOn(results.rows[i]) :
                SatisfiesCondition(results.rows[i], key, queryStructure.conditions[key],
                                   backendReads[1])

\* C13: for a SELECT with conditionLogic OR, the rows returned are exactly
\* the stored rows that satisfy at least one condition, a BETWEEN being
\* satisfied by the rows inside the closed interval of its two endpoints.
C13_OrRowsSatisfySomeCondition ==
    (/\ queryStructure.conditionLogic = "OR"
     /\ queryStructure.type = "SELECT"
     /\ pc \in {"enriching", "narrating"}
     /\ ~results.isNull) =>
        \A e \in EmployeeIds :
            (\E i \in 1..Len(results.rows) : results.rows[i].owners = {e})
            <=> \E key \in ConditionsOn(TableRows(queryStructure.table)[e]) :
                    SatisfiesCondition(TableRows(queryStructure.table)[e], key,
                                       queryStructure.conditions[key], backendReads[1])

\* The query handed to the executor has a condition whose value is a
\* parenthesized select that executeSubquery does not support.
HasUnsupportedSubquery(q) ==
    \E key \in DOMAIN q.conditions :
        /\ q.conditions[key].value.k = "str"
        /\ q.conditions[key].value.s \in ParenthesizedSelects
        /\ \/ ~HasSupportedPrefix(q.conditions[key].value.s)
           \/ SubqueryFilters(q.conditions[key].value.s) = {}

\* C17: once the executor has run on a query with an unsupported
\* parenthesized select among its condition values, the request has failed
\* in subquery resolution and nothing was read with the value as a literal.
C17_UnsupportedSubqueryFails ==
    (executorCalls # <<>> /\ pc # "executing" /\ HasUnsupportedSubquery(executorCalls[1])) =>
        "subquery" \in failures /\ backendReads = <<>>

\* C18: what the executor returned to the handler is a sequence of rows,
\* never null.
C18_ExecutorNeverReturnsNull ==
    ~results.isNull

\* The executor ran on the plain average-salary query and returned.
AvgSalaryAnswered ==
    /\ executorCalls # <<>>
    /\ executorCalls[1].type = "AGGREGATE"
    /\ IsAvgSalaryShape(executorCalls[1])
    /\ pc \in {"enriching", "narrating"}

\* The field of the average: the alias written in the column, or avg_salary.
AvgSalaryField == AliasOr(executorCalls[1].columns[1], "avg_salary")

\* The one read sent was the call of the average-salary procedure.
OnlyAvgSalaryProcedure ==
    /\ Len(backendReads) = 1
    /\ backendReads[1].kind = "rpc"
    /\ backendReads[1].target = "get_average_salary"

\* The rows are one row whose one field is the average, a number.
IsAvgSalaryRow(rows) ==
    /\ Len(rows) = 1
    /\ DOMAIN rows[1].data = {AvgSalaryField}
    /\ rows[1].data[AvgSalaryField].k = "num"

AbortingStages ==
    {"request", "translate", "translate_parse", "translate_shape", "subquery", "execute", "narrate"}

\* The translator is called at most once and has returned before the
\* executor is called; a subquery lookup is read before the main read that
\* uses its ids; the narrator is called at most once, after the executor
\* (and the enrichment lookup) returned.
StagesInSequence ==
    /\ translatorCalls <= 1
    /\ Len(narratorCalls) <= 1
    /\ executorCalls # <<>> => translatorCalls = 1 /\ pc # "translating"
    /\ narratorCalls # <<>> => executorCalls # <<>> /\ pc \in {"narrating", "done"}
    /\ \A i \in 1..Len(backendReads) :
          (\E f \in backendReads[i].filters : f.op = "in" /\ f.col = "emp_id"
                                             /\ backendReads[i].target # "employees")
              => \E j \in 1..(i - 1) :
                     /\ backendReads[j].target = "employees"
                     /\ \E f \in backendReads[j].filters : f.op = "ilike"

\* After a failure of an aborting stage the request is over and no later
\* stage was called.
NoStageAfterAbort ==
    /\ failures \cap AbortingStages # {} => pc = "done"
    /\ failures \cap {"request", "translate", "translate_parse", "translate_shape"} # {}
          => executorCalls = <<>> /\ narratorCalls = <<>>
    /\ failures \cap {"subquery", "execute"} # {}
          => Len(executorCalls) = 1 /\ narratorCalls = <<>>

C22_GuardBeforeTranslator ==
    (/\ Posted
     /\ \/ body.employeeId # 0 /\ MatchesOther(body.message)
        \/ body.employeeId = 0 /\ MatchesPersonal(body.message)) =>
        translatorCalls = 0

\* The procedure was called for the query handed to the executor.
Redirected(name) ==
    /\ executorCalls # <<>>
    /\ backendReads # <<>>
    /\ backendReads[Len(backendReads)].kind = "rpc"
    /\ backendReads[Len(backendReads)].target = name

\* C23: a query is answered by the most-absences, most-leave or work-hours
\* procedure only if it carries no condition but the ones the procedure
\* takes and, for the two rankings, orders descending.
C23_RedirectOnlyOnExactShape ==
    /\ Redirected("get_employee_with_most_absences") =>
          /\ DOMAIN executorCalls[1].conditions = {"status"}
          /\ executorCalls[1].orderBy[1].direction = "desc"
    /\ Redirected("get_employee_with_most_leave") =>
          /\ DOMAIN executorCalls[1].conditions = {}
          /\ executorCalls[1].orderBy[1].direction = "desc"
    /\ Redirected("get_employee_work_hours") =>
          DOMAIN executorCalls[1].conditions = {"emp_id", "date"}

\* The query handed to the executor asks the sum of total_hours of
\* attendance with a date BETWEEN of two endpoints and an emp_id given as a
\* number, a numeric string, or a name subquery that the lookup resolved to
\* one id, and the executor returned.
WorkHoursAsked ==
    /\ executorCalls # <<>>
    /\ pc \in {"enriching", "narrating"}
    /\ executorCalls[1].type = "AGGREGATE"
    /\ executorCalls[1].table = "attendance"
    /\ executorCalls[1].columns = <<Agg("SUM", "total_hours", "")>>
    /\ DOMAIN executorCalls[1].conditions = {"emp_id", "date"}
    /\ IsBetween(executorCalls[1].conditions["date"])
    /\ Len(BetweenParts(executorCalls[1].conditions["date"].value.s)) = 2
    /\ \/ WorkHoursEmpId(executorCalls[1].conditions) >= 0
       \/ /\ IsSubqueryCondition(executorCalls[1].conditions["emp_id"])
          /\ \E i \in 1..Len(backendReads) : \E f \in backendReads[i].filters :
                f.col = "emp_id" /\ f.op = "in" /\ Cardinality(f.val.a) = 1

\* C24: such a query is answered by the work-hours procedure, called with
\* the employee id and the two endpoints; nothing is selected from
\* attendance, and the result is one row {sum_total_hours: number}.
C24_WorkHoursByProcedure ==
    WorkHoursAsked =>
        /\ \E i \in 1..Len(backendReads) :
              /\ backendReads[i].kind = "rpc"
              /\ backendReads[i].target = "get_employee_work_hours"
              /\ {f.op : f \in backendReads[i].filters} = {"eq", "gte", "lte"}
        /\ \A i \in 1..Len(backendReads) :
              ~(backendReads[i].kind = "from" /\ backendReads[i].target = "attendance")
        /\ Len(results.rows) = 1
        /\ DOMAIN results.rows[1].data = {"sum_total_hours"}
        /\ results.rows[1].data["sum_total_hours"].k = "num"

\* The executor has returned the rows of the handler's query from a select
\* (no procedure), and they are still as returned.
GenericReturned ==
    /\ pc = "enriching" \/ (pc = "narrating" /\ Len(executorCalls) = 1)
    /\ backendReads # <<>>
    /\ backendReads[Len(backendReads)].kind = "from"

\* C25: with a positive limit n the generic path returns at most n rows;
\* with an orderBy they are in the requested order and no stored row that
\* passes the filters sorts before one of them without being among them.
C25_LimitAndOrder ==
    (GenericReturned /\ executorCalls[1].limit > 0) =>
        /\ Len(results.rows) <= executorCalls[1].limit
        /\ executorCalls[1].orderBy # <<>> =>
              /\ \A i \in 1..Len(results.rows) : \A j \in i..Len(results.rows) :
                    ~Precedes(results.rows[j], results.rows[i], executorCalls[1].orderBy)
              /\ \A e \in EmployeeIds : \A i \in 1..Len(results.rows) :
                    (/\ Keeps(TableRows(executorCalls[1].table)[e],
                              backendReads[Len(backendReads)].filters,
                              backendReads[Len(backendReads)].logic)
                     /\ Precedes(TableRows(executorCalls[1].table)[e], results.rows[i],
                                 executorCalls[1].orderBy))
                        => \E j \in 1..Len(results.rows) : results.rows[j].owners = {e}

\* C29: the personalization flag handed to the narrator equals the
\* personalized field of the success response, and both are true exactly
\* when the question is personal and an employeeId was supplied.
C29_NarratorFlagEqualsResponseFlag ==
    \A i \in 1..Len(responses) :
        IsSuccess(responses[i]) =>
            /\ narratorCalls[Len(narratorCalls)].personalized = responses[i].personalized
            /\ responses[i].personalized = (isPersonalQuestion /\ body.employeeId # 0)

\* Thai questions about another employee: one naming the employee by number
\* and one asking for the salary of a named colleague.
QuestionsAboutOthers ==
    { <<"TH_khomun", "TH_phanakngan", " ", "5">>,
      <<"TH_ngoenduean", "TH_khong", "TH_somchai">> }

\* C30: with an employeeId, a Thai question about another employee is
\* refused and never reaches the translator.
C30_ThaiQuestionAboutOthersRefused ==
    (Posted /\ body.employeeId # 0 /\ body.message \in QuestionsAboutOthers) =>
        /\ translatorCalls = 0
        /\ \E i \in 1..Len(responses) : responses[i] = Refusal

(***************************************************************************)
(* Properties of the socket server.                                        *)
(***************************************************************************)
LoggedIn(s) ==
    /\ sockets[s] = "connected"
    /\ [socketId |-> s, event |-> "login_response", success |-> TRUE] \in emitted

\* C11: no two sockets that are still connected have both been sent
\* login_response with success true.
C11_AtMostOneActiveUser ==
    \A s \in Sockets : \A t \in Sockets : (LoggedIn(s) /\ LoggedIn(t)) => s = t

\* C28: currentUser never designates a socket whose disconnect handler has
\* already run.
C28_CurrentUserIsConnected ==
    currentUser.socketId # 0 => sockets[currentUser.socketId] # "closed"

(***************************************************************************)
(* Properties of the date normalizer.                                      *)
(***************************************************************************)
\* a is not after b, as texts y-m-d compare.
DateLeq(a, b) ==
    \/ a.y < b.y
    \/ a.y = b.y /\ a.m < b.m
    \/ a.y = b.y /\ a.m = b.m /\ a.d <= b.d

\* C14: two real dates y-m-d written in non-decreasing order are normalized
\* to endpoints in non-decreasing order, whatever the current date.
C14_EndpointsStayOrdered ==
    (/\ normalized # <<>>
     /\ IsRealDate(dateInputs[1]) /\ IsRealDate(dateInputs[2])
     /\ DateLeq(dateInputs[1], dateInputs[2])) =>
        DateLeq(normalized[1], normalized[2])

\* C15: normalizing the normalization of a real date y-m-d gives the same
\* text again, whatever the current date and the time zone.
C15_NormalizeIdempotent ==
    (renormalized # <<>> /\ IsRealDate(dateInputs[1])) => renormalized[1] = normalized[1]

\* C16: whatever the text, the normalizer answers a real calendar date.
C16_AlwaysARealDate ==
    normalized # <<>> => IsRealDate(normalized[1]) /\ IsRealDate(normalized[2])

\* The day y-m-d is no more than six calendar months away from today, on
\* either side.
WithinSixMonths(y, m, d) ==
    /\ DayNumber(y, m, d) >= DayNumber(clock.today.y, clock.today.m - 6, clock.today.d)
    /\ DayNumber(y, m, d) <= DayNumber(clock.today.y, clock.today.m + 6, clock.today.d)

\* C26: a text y-m-d of another year gets the current year exactly when its
\* month and day are a real date of the current year within six months of
\* today; otherwise its own year is kept.
C26_YearRewrittenWithinSixMonths ==
    (normalized # <<>> /\ dateInputs[1].form = "ymd" /\ dateInputs[1].y # clock.today.y) =>
        IF /\ IsRealDate(Ymd(clock.today.y, dateInputs[1].m, dateInputs[1].d))
           /\ WithinSixMonths(clock.today.y, dateInputs[1].m, dateInputs[1].d)
        THEN normalized[1] = Ymd(clock.today.y, dateInputs[1].m, dateInputs[1].d)
        ELSE normalized[1].y = dateInputs[1].y

\* What a legacy relative form denotes: today, today moved by n days or n
\* months, or the first day of the current month.
LegacyDate(t) ==
    CASE t.form = "now" -> clock.today
      [] t.form = "modifier" /\ t.unit = "day" ->
            DateOf(DayNumber(clock.today.y, clock.today.m, clock.today.d) + t.n)
      [] t.form = "modifier" ->
            DateOf(DayNumber(clock.today.y, clock.today.m + t.n, clock.today.d))
      [] OTHER -> Ymd(clock.today.y, clock.today.m, 1)

\* C27: date('now'), date('now', 'n day'), date('now', 'n month') and
\* date('now', 'start of month') are normalized to the date they denote.
C27_LegacyRelativeForms ==
    (normalized # <<>> /\ dateInputs[1].form \in {"now", "modifier", "start"}) =>
        normalized[1] = LegacyDate(dateInputs[1])
====
